---------------------------- MODULE Spec2Model ----------------------------
(***************************************************************************)
(* FermatSnellSimulator: PathSimulator (src/simulation/simulator.py),      *)
(* Animator (src/visualization/animator.py) and the script that wires      *)
(* them (src/main.py).                                                     *)
(*                                                                         *)
(* Number model.  The program computes in IEEE doubles; the model computes *)
(* in exact real arithmetic on an integer grid.  A square root np.sqrt(n)  *)
(* is kept as its radicand n, an angle as the (gcd-reduced) direction      *)
(* vector it points along, a quotient as a fraction in lowest terms.  All  *)
(* comparisons between sums of square roots are decided exactly.  Rounding *)
(* error of the doubles is therefore not modelled.                         *)
(*                                                                         *)
(* plane_size, title, image and image_zoom only reach matplotlib and are   *)
(* left out; scipy's minimize is modelled by what L-BFGS-B guarantees: the *)
(* iterates stay inside the bounds, each has a smaller objective than the  *)
(* one before, and the result reports success or failure.                  *)
(***************************************************************************)
EXTENDS Integers, Sequences, FiniteSets

\* ------------------------------------------------------------ arithmetic

Abs(n) == IF n < 0 THEN -n ELSE n

\* np.sign
Sign(n) == IF n > 0 THEN 1 ELSE IF n < 0 THEN -1 ELSE 0

\* Python's min / max on two numbers
Min(a, b) == IF a <= b THEN a ELSE b

Max(a, b) == IF a >= b THEN a ELSE b

RECURSIVE Gcd(_, _)
Gcd(a, b) == IF b = 0 THEN Abs(a) ELSE Gcd(b, a % Abs(b))

RECURSIVE SqrtSearch(_, _, _)
SqrtSearch(lo, hi, n) ==
    IF lo >= hi THEN lo
    ELSE LET mid == (lo + hi + 1) \div 2
         IN IF mid * mid <= n THEN SqrtSearch(mid, hi, n)
                              ELSE SqrtSearch(lo, mid - 1, n)

\* floor of the square root of n >= 0
ISqrt(n) == SqrtSearch(0, Min(n, 46340), n)

\* a <= b * sqrt(n) and b * sqrt(n) <= c for a, c >= 0, b >= 0, n >= 0, decided
\* exactly without forming a * a (Euclid's descent on the multiplier).
RECURSIVE LeqRoot(_, _, _), RootLeq(_, _, _)
LeqRoot(a, b, n) ==
    LET t == ISqrt(n)
    IN IF t * t = n THEN a <= b * t
       ELSE IF b = 0 THEN a <= 0
       ELSE LET k == a \div b
                r == a % b
                c == b * (n - t * t) - r * t
            IN IF k < t THEN TRUE
               ELSE IF k > t THEN FALSE
               ELSE IF r = 0 THEN TRUE
               ELSE IF c < 0 THEN FALSE
               ELSE RootLeq(r, n, c)

RootLeq(b, n, c) ==
    LET t == ISqrt(n)
    IN IF t * t = n THEN b * t <= c
       ELSE IF b = 0 THEN 0 <= c
       ELSE LET k == c \div b
                s == c % b
                d == b * (n - t * t) - s * t
            IN IF k > t THEN TRUE
               ELSE IF k < t THEN FALSE
               ELSE IF d <= 0 THEN TRUE
               ELSE LeqRoot(d, s, n)

\* a <= b * sqrt(n) for integers a, b of any sign
SignedLeqRoot(a, b, n) ==
    IF a <= 0 /\ b >= 0 THEN TRUE
    ELSE IF a > 0 /\ b <= 0 THEN FALSE
    ELSE IF a > 0 THEN LeqRoot(a, b, n)
    ELSE RootLeq(-b, n, -a)

\* sqrt(P) + sqrt(Q) <= sqrt(R) + sqrt(S) for radicands >= 0, decided exactly
SumLeq(P, Q, R, S) ==
    LET D == R + S - P - Q
        X == P * Q
        Y == R * S
    IN IF D >= 0
       THEN IF X <= Y THEN TRUE
            ELSE LET E == 4 * X - 4 * Y - D * D
                 IN IF E <= 0 THEN TRUE ELSE LeqRoot(E, 4 * D, Y)
       ELSE IF X >= Y THEN FALSE
            ELSE LET F == 4 * Y - 4 * X - D * D
                 IN IF F < 0 THEN FALSE ELSE RootLeq(4 * (-D), X, F)


\* ------------------------------------------------------------- fractions
\* A quotient of two numbers: <<numerator, denominator>>, denominator > 0,
\* in lowest terms.

Frac(n, d) ==
    LET g == Gcd(n, d)
    IN <<Sign(d) * (n \div g), Abs(d) \div g>>

FracMul(f, h) ==
    LET g1 == Gcd(f[1], h[2])
        g2 == Gcd(h[1], f[2])
    IN <<(f[1] \div g1) * (h[1] \div g2), (f[2] \div g2) * (h[2] \div g1)>>

FracAdd(f, h) ==
    LET g == Gcd(f[2], h[2])
        l == (f[2] \div g) * h[2]
    IN Frac(f[1] * (l \div f[2]) + h[1] * (l \div h[2]), l)

\* ---------------------------------------------------------------- angles
\* An angle is the direction it points along: <<cos, sin>> up to a positive
\* factor, reduced by the gcd.  <<1, 0>> is 0, <<0, 1>> is pi/2, <<0, -1>> is
\* -pi/2.

AngleZero == <<1, 0>>

HalfPi == <<0, 1>>

MinusHalfPi == <<0, -1>>

\* math.atan2(dy, dx); math.atan2(0, 0) is 0.0
Atan2(dy, dx) ==
    IF dx = 0 /\ dy = 0 THEN AngleZero
    ELSE LET g == Gcd(dx, dy) IN <<dx \div g, dy \div g>>

\* math.atan(slope): the angle in (-pi/2, pi/2) whose tangent is the slope
Atan(slope) == <<slope[2], slope[1]>>

\* line 159 with the sign left out: math.pi / 2
HalfPiUnsigned(s) == HalfPi

\* math.pi / 2 * s for s = np.sign(..) in {-1, 0, 1}
HalfPiTimes(s) == IF s > 0 THEN HalfPi ELSE IF s < 0 THEN MinusHalfPi ELSE AngleZero

\* np.sqrt(sq) * math.cos(angle) and np.sqrt(sq) * math.sin(angle): the
\* components of the vector of length sqrt(sq) along the angle.  Wherever
\* calculate_path uses them, sq is a square multiple of the squared length of
\* the angle's direction vector, so the components are whole numbers.
Stretch(sq, angle) == ISqrt(sq \div (angle[1] * angle[1] + angle[2] * angle[2]))

TimesCos(sq, angle) == Stretch(sq, angle) * angle[1]

TimesSin(sq, angle) == Stretch(sq, angle) * angle[2]

\* ---------------------------------------------------------------- bounds

MaxX == 3

MaxY == 2

MaxFrames == 3

MaxPathX == 2

MaxPathY == 1

XCoords == 0 .. MaxX

YCoords == 0 .. MaxY

\* (speed_of_light = 0, for which time_to_travel is nan, is not drawn.)
\* The configured speeds <<speed_of_light, velocity_1, velocity_2>> are a
\* triple of small numbers times a scale: scale 1 is a normalised
\* configuration, scale 100000 one in metres per second.  Every valid triple
\* over {1, 2} with speed_of_light = 2 is drawn, and triples with one or two
\* speeds zero or negative.
SpeedScales == {1, 100000}

ValidSpeeds == {2} \X {1, 2} \X {1, 2}

InvalidSpeeds == {<<-1, 1, 2>>, <<2, -1, 1>>, <<2, 1, -1>>, <<2, 0, 1>>, <<2, 1, 0>>, <<2, 0, 0>>}

\* scipy's L-BFGS-B stops when the projected gradient is at most gtol, by
\* default 1e-5 = 1 / GtolInv; the options the program passes (xatol, disp)
\* do not change it.
GtolInv == 100000

NoValue == <<>>

VARIABLES
    config,        \* main.py: the values read from config.yaml
    pc,            \* where main.py is
    err,           \* the exception that ended the run, or "none"
    sim,           \* the PathSimulator's attributes, NoValue before __init__
    x,             \* the minimiser's current iterate
    res,           \* the OptimizeResult: [x, success], NoValue before
    x_interface_optimal,  \* calculate_path's local: what calculate_optimal_path returned
    path,          \* calculate_path's result: 4 points, NoValue before
    angle,         \* angle_to_horizontal of calculate_path
    divided,       \* whether calculate_path divided by (B.x - x*)
    total_frames,  \* Animator.total_frames
    frames,        \* Animator.frames
    i              \* the next index FuncAnimation passes to animate

vars == <<config, pc, err, sim, x, res, x_interface_optimal, path, angle, divided, total_frames, frames, i>>

\* ----------------------------------------------------- PathSimulator

\* PathSimulator.__init__: a zero medium speed makes the float division raise
\* ZeroDivisionError; nothing else is checked.
InitFails(c) == c.material_velocity_1 = 0 \/ c.material_velocity_2 = 0

NewSimulator(c) ==
    [speed_of_light     |-> c.speed_of_light,
     refractive_index_1 |-> Frac(c.speed_of_light, c.material_velocity_1),
     refractive_index_2 |-> Frac(c.speed_of_light, c.material_velocity_2),
     point_a            |-> c.point_a,
     point_b            |-> c.point_b,
     interface_y        |-> c.interface_y]

\* calculate_distance_and_incidence_angle: <<distance_1 squared, incidence_angle>>
calculate_distance_and_incidence_angle(s, xi) ==
    LET dx == xi - s.point_a[1]
        dy == s.interface_y - s.point_a[2]
    IN <<dx * dx + dy * dy, Atan2(dy, dx)>>

\* segment_2 squared (lines 95 and 151)
Segment2Sq(s, xi) ==
    (s.point_b[1] - xi) * (s.point_b[1] - xi)
      + (s.point_b[2] - s.interface_y) * (s.point_b[2] - s.interface_y)

\* segment / speed_of_light * refractive_index: the factor of the segment
TimeFactor(s, n) == FracMul(Frac(1, s.speed_of_light), n)

\* time_to_travel: f1 * sqrt(r1) + f2 * sqrt(r2), kept as factors and radicands
time_to_travel(s, xi) ==
    [f1 |-> TimeFactor(s, s.refractive_index_1),
     r1 |-> calculate_distance_and_incidence_angle(s, xi)[1],
     f2 |-> TimeFactor(s, s.refractive_index_2),
     r2 |-> Segment2Sq(s, xi)]

\* t <= u for two travel times of one simulator (same factors), exactly
TimeLeq(t, u) ==
    LET g  == Gcd(t.f1[2], t.f2[2])
        a1 == t.f1[1] * (t.f2[2] \div g)
        a2 == t.f2[1] * (t.f1[2] \div g)
        L1 == IF a1 >= 0 THEN a1 * a1 * t.r1 ELSE a1 * a1 * u.r1
        R1 == IF a1 >= 0 THEN a1 * a1 * u.r1 ELSE a1 * a1 * t.r1
        L2 == IF a2 >= 0 THEN a2 * a2 * t.r2 ELSE a2 * a2 * u.r2
        R2 == IF a2 >= 0 THEN a2 * a2 * u.r2 ELSE a2 * a2 * t.r2
    IN SumLeq(L1, L2, R1, R2)

TimeLess(t, u) == ~TimeLeq(u, t)

\* lines 112-113 with point_b indexed by 1 instead of 0
BoundsFromBY(s) ==
    <<Min(s.point_a[1], s.point_b[2]), Max(s.point_a[1], s.point_b[2])>>

\* calculate_optimal_path, lines 112-116: the bounds handed to the minimiser
BoundsX(s) ==
    <<Min(s.point_a[1], s.point_b[1]), Max(s.point_a[1], s.point_b[1])>>

\* line 119: the initial guess
InitialGuess(s) == s.point_a[1]

InBounds(s, xi) == BoundsX(s)[1] <= xi /\ xi <= BoundsX(s)[2]

\* The steps the bounded minimiser can take from xi: a neighbouring point
\* inside the bounds with a strictly smaller travel time.
DescentSteps(s, xi) ==
    {y \in {xi - 1, xi + 1} :
        InBounds(s, y) /\ TimeLess(time_to_travel(s, y), time_to_travel(s, xi))}

\* L-BFGS-B's first test, at the initial guess x0 = A.x (always an end of the
\* bounds): the norm of the projected gradient is at most gtol.  Into the
\* interval the travel time changes at the rate
\*     f1 * d - f2 * |B.x - A.x| / segment_2    (d = 1 when A is on the
\* interface, where distance_1 = |x - A.x|, else 0),
\* and the projected gradient is min(width of the bounds, max(0, -rate)).
ProjectedGradientBelowGtol(s) ==
    LET b    == Abs(s.point_b[1] - s.point_a[1])
        d    == IF s.point_a[2] = s.interface_y THEN 1 ELSE 0
        t    == time_to_travel(s, InitialGuess(s))
        fall == FracMul(t.f2, <<b, 1>>)
        tol  == FracAdd(<<1, GtolInv>>, FracMul(t.f1, <<d, 1>>))
        g    == Gcd(fall[2], tol[2])
    IN \/ BoundsX(s)[1] = BoundsX(s)[2]
       \/ SignedLeqRoot(fall[1] * (tol[2] \div g), tol[1] * (fall[2] \div g), t.r2)

\* The minimiser reports convergence at xi
Converged(s, xi, first) ==
    \/ first /\ ProjectedGradientBelowGtol(s)
    \/ DescentSteps(s, xi) = {}

\* line 167 with the second segment ending at the recomputed point
PathPointsRecomputed(s, incidence_point, refraction_point) ==
    <<s.point_a, incidence_point, refraction_point, refraction_point>>

\* lines 166-169: the two segments, concatenated
PathPoints(s, incidence_point, refraction_point) ==
    <<s.point_a, incidence_point, refraction_point, s.point_b>>

\* calculate_path, lines 138-169, for the crossing xo the minimiser returned:
\* [path, angle_to_horizontal, divided].  The refraction angle of lines
\* 141-144 is computed and never used.
calculate_path(s, xo) ==
    LET da          == calculate_distance_and_incidence_angle(s, xo)
        distance_1  == da[1]
        incidence   == da[2]
        x_incidence == s.point_a[1] + TimesCos(distance_1, incidence)
        segment_2   == Segment2Sq(s, xo)
        vertical    == s.point_b[1] = xo
        ang         == IF ~vertical
                       THEN Atan(Frac(s.point_b[2] - s.interface_y, s.point_b[1] - xo))
                       ELSE HalfPiTimes(Sign(s.point_b[2] - s.interface_y))
        x_refraction == xo + TimesCos(segment_2, ang)
        y_refraction == s.interface_y + TimesSin(segment_2, ang)
    IN [path    |-> PathPoints(s, <<x_incidence, s.interface_y>>,
                                  <<x_refraction, y_refraction>>),
        angle   |-> ang,
        divided |-> ~vertical]

\* ---------------------------------------------------------------- Animator

\* generate_frames, line 105: the squared length of segment k of the path
PathLengthSq(p, k) ==
    (p[k + 1][1] - p[k][1]) * (p[k + 1][1] - p[k][1])
      + (p[k + 1][2] - p[k][2]) * (p[k + 1][2] - p[k][2])

\* line 106: total_length is 0
TotalLengthZero(p) == \A k \in 1 .. 3 : PathLengthSq(p, k) = 0

\* n * (total_length) <= tf * (length of segment k)
ShareAtLeast(p, tf, k, n) ==
    LET others == (1 .. 3) \ {k}
        j      == CHOOSE m \in others : TRUE
        l      == CHOOSE m \in others : m # j
    IN SumLeq(n * n * PathLengthSq(p, j), n * n * PathLengthSq(p, l),
              (tf - n) * (tf - n) * PathLengthSq(p, k), 0)

\* tf * (length of segment k) <= n * (total_length)
ShareAtMost(p, tf, k, n) ==
    LET others == (1 .. 3) \ {k}
        j      == CHOOSE m \in others : TRUE
        l      == CHOOSE m \in others : m # j
    IN SumLeq((tf - n) * (tf - n) * PathLengthSq(p, k), 0,
              n * n * PathLengthSq(p, j), n * n * PathLengthSq(p, l))

\* line 107 rounding up (math.ceil) instead of truncating (int)
SegmentFramesCeil(p, tf, k) ==
    CHOOSE n \in 0 .. tf :
        /\ ShareAtMost(p, tf, k, n)
        /\ \A m \in 0 .. (n - 1) : ~ShareAtMost(p, tf, k, m)

\* line 107: int(total_frames * length / total_length) for segment k
SegmentFrames(p, tf, k) ==
    CHOOSE n \in 0 .. tf :
        /\ ShareAtLeast(p, tf, k, n)
        /\ \A m \in (n + 1) .. tf : ~ShareAtLeast(p, tf, k, m)

\* lines 109-113: the frames of segment k, n of them: t = j / n, and
\* np.interp(t, [0, 1], [start, end]) on each coordinate
Interp(j, n, from, to) == Frac(from * n + j * (to - from), n)

FramesOfSegment(p, k, n) ==
    [j \in 1 .. n |-> <<Interp(j - 1, n, p[k][1], p[k + 1][1]),
                        Interp(j - 1, n, p[k][2], p[k + 1][2])>>]

generate_frames(p, tf) ==
    FramesOfSegment(p, 1, SegmentFrames(p, tf, 1))
      \o FramesOfSegment(p, 2, SegmentFrames(p, tf, 2))
      \o FramesOfSegment(p, 3, SegmentFrames(p, tf, 3))

\* run, line 131: FuncAnimation(frames=len(self.frames)) calls animate(i)
\* for i in range(that number)
AnimationLength(fs, tf) == Len(fs)

\* ------------------------------------------------------------------ main

\* main.py lines 9-14: what the script reads from config.yaml
Configs ==
    {[speed_of_light      |-> t[1][1] * t[2],
      material_velocity_1 |-> t[1][2] * t[2],
      material_velocity_2 |-> t[1][3] * t[2],
      point_a             |-> t[3],
      point_b             |-> t[4],
      interface_y         |-> t[5]] :
        t \in (ValidSpeeds \cup InvalidSpeeds) \X SpeedScales
                \X (XCoords \X YCoords) \X (XCoords \X YCoords) \X YCoords}

Init ==
    /\ config \in Configs
    /\ pc = "config"
    /\ err = "none"
    /\ sim = NoValue
    /\ x = 0
    /\ res = NoValue
    /\ x_interface_optimal = NoValue
    /\ path = NoValue
    /\ angle = NoValue
    /\ divided = FALSE
    /\ total_frames = 0
    /\ frames = <<>>
    /\ i = 0

\* main.py line 21: PathSimulator(...)
Construct ==
    /\ pc = "config"
    /\ IF InitFails(config)
       THEN /\ pc' = "error"
            /\ err' = "ZeroDivisionError"
            /\ sim' = sim
       ELSE /\ pc' = "constructed"
            /\ err' = err
            /\ sim' = NewSimulator(config)
    /\ UNCHANGED <<config, x, res, x_interface_optimal, path, angle, divided, total_frames, frames, i>>

\* main.py line 23 -> calculate_path line 135 -> calculate_optimal_path: the
\* minimiser starts at x0
MinimizeStart ==
    /\ pc = "constructed"
    /\ pc' = "minimizing"
    /\ x' = InitialGuess(sim)
    /\ UNCHANGED <<config, err, sim, res, x_interface_optimal, path, angle, divided, total_frames, frames, i>>

\* one iteration of the bounded minimiser
MinimizeStep ==
    /\ pc = "minimizing"
    /\ ~Converged(sim, x, x = InitialGuess(sim))
    /\ x' \in DescentSteps(sim, x)
    /\ UNCHANGED <<config, pc, err, sim, res, x_interface_optimal, path, angle, divided, total_frames, frames, i>>

\* the minimiser returns with success = True
MinimizeConverge ==
    /\ pc = "minimizing"
    /\ Converged(sim, x, x = InitialGuess(sim))
    /\ res' = [x |-> x, success |-> TRUE]
    /\ pc' = "optimized"
    /\ UNCHANGED <<config, err, sim, x, x_interface_optimal, path, angle, divided, total_frames, frames, i>>

\* the minimiser gives up before converging (abnormal line search
\* termination, iteration or evaluation limit): success = False and x the
\* last iterate
MinimizeAbort ==
    /\ pc = "minimizing"
    /\ ~Converged(sim, x, x = InitialGuess(sim))
    /\ res' = [x |-> x, success |-> FALSE]
    /\ pc' = "optimized"
    /\ UNCHANGED <<config, err, sim, x, x_interface_optimal, path, angle, divided, total_frames, frames, i>>

\* calculate_optimal_path line 125 (return res.x[0], whatever res.success
\* is) and calculate_path lines 138-169
CalculatePath ==
    /\ pc = "optimized"
    /\ LET r == calculate_path(sim, res.x)
       IN /\ x_interface_optimal' = res.x
          /\ path' = r.path
          /\ angle' = r.angle
          /\ divided' = r.divided
    /\ pc' = "path"
    /\ UNCHANGED <<config, err, sim, x, res, total_frames, frames, i>>

\* main.py lines 23-24: Animator(path, ..., frames, ...); __init__ ends with
\* generate_frames, whose 0 / 0 = nan makes int() raise ValueError
AnimatorInit ==
    /\ pc = "path"
    /\ \E tf \in 0 .. MaxFrames :
        /\ total_frames' = tf
        /\ IF TotalLengthZero(path)
           THEN /\ pc' = "error"
                /\ err' = "ValueError"
                /\ frames' = frames
           ELSE /\ pc' = "animating"
                /\ err' = err
                /\ frames' = generate_frames(path, tf)
    /\ UNCHANGED <<config, sim, x, res, x_interface_optimal, path, angle, divided, i>>

\* main.py line 25 -> run -> animate(i): frame = self.frames[i]
Animate ==
    /\ pc = "animating"
    /\ i < AnimationLength(frames, total_frames)
    /\ IF i < Len(frames)
       THEN /\ i' = i + 1
            /\ UNCHANGED <<pc, err>>
       ELSE /\ pc' = "error"
            /\ err' = "IndexError"
            /\ i' = i
    /\ UNCHANGED <<config, sim, x, res, x_interface_optimal, path, angle, divided, total_frames, frames>>

\* the animation has shown its last frame
Finish ==
    /\ pc = "animating"
    /\ i >= AnimationLength(frames, total_frames)
    /\ pc' = "done"
    /\ UNCHANGED <<config, err, sim, x, res, x_interface_optimal, path, angle, divided, total_frames, frames, i>>

Next ==
    \/ Construct
    \/ MinimizeStart
    \/ MinimizeStep
    \/ MinimizeConverge
    \/ MinimizeAbort
    \/ CalculatePath
    \/ AnimatorInit
    \/ Animate
    \/ Finish

Spec == Init /\ [][Next]_vars

\* The Animator on its own, for any 4-point path over a small grid
PathPoints4 == (0 .. MaxPathX) \X (0 .. MaxPathY)

AnyPath ==
    /\ config = NoValue
    /\ pc = "path"
    /\ err = "none"
    /\ sim = NoValue
    /\ x = 0
    /\ res = NoValue
    /\ x_interface_optimal = NoValue
    /\ path \in PathPoints4 \X PathPoints4 \X PathPoints4 \X PathPoints4
    /\ angle = NoValue
    /\ divided = FALSE
    /\ total_frames = 0
    /\ frames = <<>>
    /\ i = 0

AnimatorNext ==
    \/ AnimatorInit
    \/ Animate
    \/ Finish

AnimatorSpec == AnyPath /\ [][AnimatorNext]_vars

\* ---------------------------------------------------------------- claims

\* all speeds strictly positive
ValidConfig ==
    /\ config.speed_of_light > 0
    /\ config.material_velocity_1 > 0
    /\ config.material_velocity_2 > 0

\* the minimiser has returned its OptimizeResult
HasResult ==
    \/ pc \in {"optimized", "path", "animating", "done"}
    \/ pc = "error" /\ err = "ValueError"

\* calculate_optimal_path has returned and calculate_path has run
Returned == HasResult /\ pc # "optimized"

TravelTime(xi) == time_to_travel(sim, xi)

\* C1: for every valid configuration the returned x* minimises time_to_travel
\* over the search interval (here: over its grid points), stated for the runs
\* in which the minimiser reports success.
C1_GlobalMinimiser ==
    (Returned /\ ValidConfig /\ res.success) =>
        \A y \in XCoords :
            InBounds(sim, y) => TimeLeq(TravelTime(x_interface_optimal), TravelTime(y))

\* C2: for every valid input calculate_path returns 4 points whose two middle
\* points are both (x*, interface_y); stated for the runs in which the
\* minimiser reports success.
C2_MiddlePointsOnInterface ==
    (pc = "path" /\ ValidConfig /\ res.success) =>
        /\ Len(path) = 4
        /\ path[2] = <<x_interface_optimal, config.interface_y>>
        /\ path[3] = <<x_interface_optimal, config.interface_y>>

\* C3: the iterate never leaves [min(A.x, B.x), max(A.x, B.x)], so the
\* returned x* lies in it; when A.x = B.x the returned x* is that x.
C3_WithinBounds ==
    /\ pc = "minimizing" =>
            /\ Min(config.point_a[1], config.point_b[1]) <= x
            /\ x <= Max(config.point_a[1], config.point_b[1])
    /\ Returned =>
            /\ Min(config.point_a[1], config.point_b[1]) <= x_interface_optimal
            /\ x_interface_optimal <= Max(config.point_a[1], config.point_b[1])
            /\ (config.point_a[1] = config.point_b[1]
                    => x_interface_optimal = config.point_a[1])

\* a descent of two steps ended strictly between A.x and B.x
C3_Witness ==
    /\ Returned
    /\ ValidConfig
    /\ res.success
    /\ config.point_a[1] + 1 < x_interface_optimal
    /\ x_interface_optimal < config.point_b[1]

\* C4: a configuration with a speed that is zero or negative never gets past
\* the constructor: it reaches neither the minimiser nor calculate_path.
C4_InvalidNeverSimulated ==
    ~ValidConfig => pc \notin {"minimizing", "optimized", "path", "animating", "done"}

\* C5: when the minimiser reports failure no path is produced and nothing is
\* handed to the Animator: the run ends in an OptimizationFailure.  Stated
\* for valid inputs.
C5_FailureRaises ==
    (HasResult /\ ValidConfig /\ ~res.success) =>
        /\ path = NoValue
        /\ pc \in {"optimized", "error"}
        /\ (pc = "error" => err = "OptimizationFailure")

\* C6: with equal medium speeds, A and B strictly on opposite sides of the
\* interface and the straight line from A to B meeting it at a grid point,
\* the returned x* is that point: (x* - A.x) (A.y - B.y) = (B.x - A.x) (A.y - iy).
C6_StraightLine ==
    (/\ Returned
     /\ res.success
     /\ ValidConfig
     /\ config.material_velocity_1 = config.material_velocity_2
     /\ (config.point_a[2] - config.interface_y) * (config.point_b[2] - config.interface_y) < 0
     /\ ((config.point_b[1] - config.point_a[1]) * (config.point_a[2] - config.interface_y))
            % Abs(config.point_a[2] - config.point_b[2]) = 0)
    => (x_interface_optimal - config.point_a[1]) * (config.point_a[2] - config.point_b[2])
         = (config.point_b[1] - config.point_a[1]) * (config.point_a[2] - config.interface_y)

\* C7 as stated: when B.x = x* nothing is divided by (B.x - x*) and the angle
\* is +pi/2 or -pi/2 with the sign of (B.y - interface_y), for every B.y;
\* stated for valid inputs and the runs in which the minimiser reports success.
C7_VerticalAlwaysHalfPi ==
    (pc = "path" /\ ValidConfig /\ res.success
        /\ config.point_b[1] = x_interface_optimal) =>
        /\ ~divided
        /\ angle \in {HalfPi, MinusHalfPi}
        /\ (angle = HalfPi <=> config.point_b[2] > config.interface_y)

\* C7 amended: when B.x = x* nothing is divided by (B.x - x*) and the angle is
\* pi/2 * sign(B.y - interface_y): +pi/2 for B above the interface, -pi/2
\* for B below it, and 0 for B on it.
C7_VerticalSignedHalfPi ==
    (pc = "path" /\ config.point_b[1] = x_interface_optimal) =>
        /\ ~divided
        /\ (config.point_b[2] > config.interface_y => angle = HalfPi)
        /\ (config.point_b[2] < config.interface_y => angle = MinusHalfPi)
        /\ (config.point_b[2] = config.interface_y => angle = AngleZero)

\* the vertical branch was taken with B below the interface
C7_Witness ==
    /\ pc = "path"
    /\ ValidConfig
    /\ res.success
    /\ config.point_b[1] = x_interface_optimal
    /\ config.point_b[2] < config.interface_y
    /\ ~divided

\* C8: path[0] is point A and path[3] is point B, for all inputs.
C8_EndpointsCopied ==
    pc = "path" =>
        /\ path[1] = config.point_a
        /\ path[4] = config.point_b

\* a path whose recomputed third point is not B
C8_Witness ==
    /\ pc = "path"
    /\ ValidConfig
    /\ res.success
    /\ path[3] # config.point_b
    /\ path[4] = config.point_b

\* C9: the point projected from the crossing for the crossing->B distance
\* coincides with B, wherever B lies with respect to the crossing; stated for
\* valid inputs and the runs in which the minimiser reports success.
C9_SecondSegmentHitsB ==
    (pc = "path" /\ ValidConfig /\ res.success) => path[3] = config.point_b

=============================================================================
